---- MODULE Spec2Model ----
(***************************************************************************)
(* Model of src/shared/libebm/Purify.cpp: the validating entry point       *)
(* Purify and the purification core PurifyInternal.                        *)
(*                                                                         *)
(* Numbers.  A C++ double is modelled as a fixed-point number: the integer *)
(* n stands for the real n / Scale.  Addition, subtraction, negation and   *)
(* comparison are exact; a product and a quotient are rounded to the       *)
(* nearest representable value, ties to even, as the default IEEE mode     *)
(* does.  Products by a whole number (a multiple of Scale) are therefore   *)
(* exact, products by a fraction carry rounding noise.                     *)
(*                                                                         *)
(* Buffers are functions over 0..n-1, indexed as the C arrays are.         *)
(***************************************************************************)
EXTENDS Integers, Sequences, FiniteSets, TLC

\* ------------------------------------------------------------------ numbers

\* one unit of the modelled doubles is 1/Scale
Scale == 4

\* std::numeric_limits<double>::infinity(): above every total a pass can reach
Infinity == 1000000

\* width of the modelled size_t, and its largest value
SizeBits == 4
SizeMax == (2 ^ SizeBits) - 1

\* largest dimension count Purify accepts (scaled down)
k_cDimensionsMax == 3

Abs(x) == IF x < 0 THEN -x ELSE x

\* n / d rounded to the nearest integer, ties to even (d > 0)
RoundDiv(n, d) ==
  LET q == n \div d
      r == n % d
  IN  IF 2 * r > d \/ (2 * r = d /\ q % 2 = 1) THEN q + 1 ELSE q

\* double * double
DMul(a, b) == RoundDiv(a * b, Scale)

\* double / double, for a positive divisor
DDiv(a, b) == RoundDiv(a * Scale, b)

\* sum of f over the indexes of S below n, in the order the loops add
RECURSIVE SumBelow(_, _, _)
SumBelow(f, S, n) ==
  IF n = 0 THEN 0
  ELSE SumBelow(f, S, n - 1) + (IF (n - 1) \in S THEN f[n - 1] ELSE 0)

\* sum of f over the finite set S of indexes
SumOver(f, S) ==
  IF S = {} THEN 0
  ELSE SumBelow(f, S, 1 + CHOOSE m \in S : \A i \in S : i <= m)

\* ------------------------------------------------- Purify: argument checks

\* IsConvertError<size_t>(dimensionsLength), for a positive length
IsConvertError(dimensionsLength) == dimensionsLength > SizeMax

\* IsMultiplyError(cTensorBins, cBins): the product does not fit size_t
IsMultiplyError(cTensorBins, cBins) == cTensorBins * cBins > SizeMax

\* the loop over dimensionLengths that looks for negative and zero lengths;
\* "negative" at the first negative length, else "empty" when bZero was set
RECURSIVE ScanLengths(_, _, _, _)
ScanLengths(dimensionLengths, cDimensions, iDimension, bZero) ==
  IF iDimension = cDimensions THEN (IF bZero THEN "empty" ELSE "ok")
  ELSE LET dimensionsLength == dimensionLengths[iDimension] IN
       IF dimensionsLength <= 0
       THEN IF dimensionsLength < 0 THEN "negative"
            ELSE ScanLengths(dimensionLengths, cDimensions, iDimension + 1, TRUE)
       ELSE ScanLengths(dimensionLengths, cDimensions, iDimension + 1, bZero)

\* the loop that multiplies the lengths into cTensorBins; 0 stands for the
\* return of Error_OutOfMemory from inside the loop
RECURSIVE CountTensorBins(_, _, _, _)
CountTensorBins(dimensionLengths, cDimensions, iDimension, cBinsSoFar) ==
  IF iDimension = cDimensions THEN cBinsSoFar
  ELSE LET dimensionsLength == dimensionLengths[iDimension] IN
       IF IsConvertError(dimensionsLength) THEN 0
       ELSE IF IsMultiplyError(cBinsSoFar, dimensionsLength) THEN 0
       ELSE CountTensorBins(dimensionLengths, cDimensions, iDimension + 1,
                            cBinsSoFar * dimensionsLength)

\* what Purify returns for countDimensions above k_cDimensionsMax
CountTooLargeIllegal == "Error_IllegalParamVal"

CountTooLargeError == "Error_OutOfMemory"

\* the three checks of weights, scores and impurities against nullptr
NullBufferCheck(a) ==
  IF a.nullWeights \/ a.nullScores \/ a.nullImpurities
  THEN "Error_IllegalParamVal" ELSE "call"

\* the result of Purify's checks on the arguments a: the error it returns
\* without calling PurifyInternal, or "call" when it goes on to call it
CheckArguments(a) ==
  IF a.countDimensions <= 0
  THEN IF a.countDimensions = 0 THEN "Error_None" ELSE "Error_IllegalParamVal"
  ELSE IF k_cDimensionsMax < a.countDimensions THEN CountTooLargeError
  ELSE IF a.nullLengths THEN "Error_IllegalParamVal"
  ELSE LET scan == ScanLengths(a.dimensionLengths, a.countDimensions, 0, FALSE) IN
       IF scan = "negative" THEN "Error_IllegalParamVal"
       ELSE IF scan = "empty" THEN "Error_None"
       ELSE IF CountTensorBins(a.dimensionLengths, a.countDimensions, 0, 1) = 0
            THEN "Error_OutOfMemory"
       ELSE NullBufferCheck(a)

\* ------------------------------------------ PurifyInternal: surface bins

\* cTensorBins / cBins, the number of surface bins of one dimension
SurfaceBinsOf(cTensorBins, cBins) == cTensorBins \div cBins

\* the loop that adds up cSurfaceBins over the dimensions
RECURSIVE CountSurfaceBins(_, _, _, _)
CountSurfaceBins(aDimensionLengths, cDimensions, cBinsAll, iExclude) ==
  IF iExclude = cDimensions THEN 0
  ELSE SurfaceBinsOf(cBinsAll, aDimensionLengths[iExclude])
       + CountSurfaceBins(aDimensionLengths, cDimensions, cBinsAll, iExclude + 1)

\* cTensorIncrement *= cSweepBins
NextIncrementAdded(cTensorIncrement, cSweepBins) == cTensorIncrement + cSweepBins

NextIncrement(cTensorIncrement, cSweepBins) == cTensorIncrement * cSweepBins

\* the while(true) loop that finds the sweep dimension of a surface bin.
\* Running past the last dimension (the EBM_ASSERT inside the loop) is
\* reported as iSweepDimension = cDimensions.
RECURSIVE FindSweep(_, _, _, _, _, _)
FindSweep(aDimensionLengths, cDimensions, cBinsAll, iSweepDimension, iDimensionSurfaceBin, cTensorIncrement) ==
  IF iSweepDimension >= cDimensions
  THEN [iSweepDimension |-> iSweepDimension, cSweepBins |-> 0,
        iDimensionSurfaceBin |-> iDimensionSurfaceBin,
        cTensorIncrement |-> cTensorIncrement]
  ELSE LET cSweepBins == aDimensionLengths[iSweepDimension]
           cSurfaceBinsExclude == SurfaceBinsOf(cBinsAll, cSweepBins)
       IN  IF iDimensionSurfaceBin < cSurfaceBinsExclude
           THEN [iSweepDimension |-> iSweepDimension, cSweepBins |-> cSweepBins,
                 iDimensionSurfaceBin |-> iDimensionSurfaceBin,
                 cTensorIncrement |-> cTensorIncrement]
           ELSE FindSweep(aDimensionLengths, cDimensions, cBinsAll,
                          iSweepDimension + 1,
                          iDimensionSurfaceBin - cSurfaceBinsExclude,
                          NextIncrement(cTensorIncrement, cSweepBins))

\* the for loop that peels one digit per dimension other than the sweep
\* dimension and places it at that dimension's stride
PeelsEveryDimension(iDimension, iSweepDimension) == TRUE

PeelsDimension(iDimension, iSweepDimension) == iDimension # iSweepDimension

RECURSIVE Peel(_, _, _, _, _, _, _, _)
Peel(aDimensionLengths, cDimensions, iSweepDimension, iDimension, iDimensionSurfaceBin, iTensor, multiple, digits) ==
  IF iDimension = cDimensions
  THEN [iTensor |-> iTensor, residual |-> iDimensionSurfaceBin, digits |-> digits]
  ELSE LET cBins == aDimensionLengths[iDimension] IN
       IF PeelsDimension(iDimension, iSweepDimension)
       THEN LET iBin == iDimensionSurfaceBin % cBins IN
            Peel(aDimensionLengths, cDimensions, iSweepDimension, iDimension + 1,
                 iDimensionSurfaceBin \div cBins, iTensor + iBin * multiple,
                 multiple * cBins, [digits EXCEPT ![iDimension] = iBin])
       ELSE Peel(aDimensionLengths, cDimensions, iSweepDimension, iDimension + 1,
                 iDimensionSurfaceBin, iTensor, multiple * cBins, digits)

\* everything the loop body computes from iAllSurfaceBin before it touches
\* the buffers
Decode(aDimensionLengths, cDimensions, cBinsAll, iBinAll) ==
  LET f == FindSweep(aDimensionLengths, cDimensions, cBinsAll, 0, iBinAll, 1)
      p == Peel(aDimensionLengths, cDimensions, f.iSweepDimension, 0,
                f.iDimensionSurfaceBin, 0, 1, [d \in 0..(cDimensions - 1) |-> 0])
  IN  [iSweepDimension |-> f.iSweepDimension,
       cSweepBins |-> f.cSweepBins,
       cTensorIncrement |-> f.cTensorIncrement,
       iDimensionSurfaceBin |-> f.iDimensionSurfaceBin,
       iTensor |-> p.iTensor,
       residual |-> p.residual,
       digits |-> p.digits]

\* the cells iTensorCur the two inner for loops visit
SliceCells(dec) ==
  {dec.iTensor + j * dec.cTensorIncrement : j \in 0..(dec.cSweepBins - 1)}

\* the reduction of one slice: impurity / weightTotal, or 0.0 without weight
SliceImpurity(weights, scores, cells) ==
  LET impurity == SumOver([i \in cells |-> DMul(scores[i], weights[i])], cells)
      weightTotal == SumOver(weights, cells)
  IN  IF weightTotal = 0 THEN 0 ELSE DDiv(impurity, weightTotal)

\* --------------------------------------------------------------- inputs

\* the cells of a generated tensor that may hold a non-zero score (the first
\* MaxNonZero) and a weight other than the common one (the first MaxOdd)
MaxNonZero == 2
MaxOdd == 1

Cells(n) == 0..(n - 1)

\* values of countDimensions a caller passes
CountVals == (-1)..(k_cDimensionsMax + 1)

\* dimension lengths a caller passes: every vector of small lengths, and the
\* vectors of 2s with one length replaced by one too large to multiply or to
\* convert
SmallLengths == {-1, 0, 1, 2}
LargeLengths == {SizeMax \div 2 + 1, SizeMax + 1}

LengthVectors(n) ==
  IF n < 1 \/ n > k_cDimensionsMax THEN {<<>>}
  ELSE [Cells(n) -> SmallLengths]
       \cup {[d \in Cells(n) |-> IF d = at THEN big ELSE 2] :
               at \in Cells(n), big \in LargeLengths}

\* values of one score, one weight, the weight the other cells share, the
\* tolerance, and of memory the caller did not initialise
ScoreVals == {-Scale, 0, 1}
WeightVals == {0, 1, Scale}
CommonWeights == {0, Scale}
ToleranceVals == {0, Scale}
GarbageVals == {7}

\* the functions on Cells(n) that are base from cell most on and take values
\* of vals before
Prefixed(n, base, vals, most) ==
  LET m == IF most < n THEN most ELSE n IN
  {[i \in Cells(n) |-> IF i < m THEN f[i] ELSE base] : f \in [Cells(m) -> vals]}

ScoresOf(n) == Prefixed(n, 0, ScoreVals, MaxNonZero)

WeightsOf(n) == UNION {Prefixed(n, base, WeightVals, MaxOdd) : base \in CommonWeights}

\* tensors checked besides the generated ones: weights and scores in units
\* of 1.0.  The first is the 2x2 example of the specification; the first
\* pass over the second leaves every slice within impurityMax at tolerance 1.
Fixtures ==
  { [weights |-> <<1, 1, 1, 1>>, scores |-> <<1, 2, 3, 4>>],
    [weights |-> <<1, 1, 1, 2>>, scores |-> <<-2, -2, -2, 2>>],
    [weights |-> <<3, 0, 1, 3, 3, 3, 1, 0>>, scores |-> <<0, 0, 1, -1, 0, -1, 0, 0>>] }

Scaled(seq) == [i \in Cells(Len(seq)) |-> Scale * seq[i + 1]]

TensorsOf(n) ==
  {[weights |-> w, scores |-> s] : w \in WeightsOf(n), s \in ScoresOf(n)}
  \cup {[weights |-> Scaled(f.weights), scores |-> Scaled(f.scores)] :
          f \in {g \in Fixtures : Len(g.weights) = n}}

\* the arguments of one call of Purify.  The buffers of a call that reaches
\* PurifyInternal have the lengths its contract asks for; the buffers of a
\* call that does not are never read.
Proceeds(n, lens, nl, nw, ns, ni) ==
  CheckArguments([countDimensions |-> n, dimensionLengths |-> lens, nullLengths |-> nl,
                  nullWeights |-> nw, nullScores |-> ns, nullImpurities |-> ni]) = "call"

ArgsOf(n, lens, nl, nw, ns, ni) ==
  IF Proceeds(n, lens, nl, nw, ns, ni)
  THEN LET cBinsAll == CountTensorBins(lens, n, 0, 1)
           cSurface == CountSurfaceBins(lens, n, cBinsAll, 0)
       IN  {[countDimensions |-> n, dimensionLengths |-> lens, nullLengths |-> nl,
             nullWeights |-> nw, nullScores |-> ns, nullImpurities |-> ni,
             tolerance |-> tol, hasInterceptOut |-> io,
             weights |-> t.weights, scores |-> t.scores,
             impurities |-> [k \in Cells(cSurface) |-> g]] :
              tol \in ToleranceVals, io \in BOOLEAN, t \in TensorsOf(cBinsAll),
              g \in GarbageVals}
  ELSE {[countDimensions |-> n, dimensionLengths |-> lens, nullLengths |-> nl,
         nullWeights |-> nw, nullScores |-> ns, nullImpurities |-> ni,
         tolerance |-> 0, hasInterceptOut |-> io,
         weights |-> <<>>, scores |-> <<>>, impurities |-> <<>>] : io \in BOOLEAN}

\* ---------------------------------------------------------------- state

VARIABLES
  arg,            \* the arguments of the call, as the caller passed them
  pc,             \* "call": before Purify; "slice": in the pass loop; "done"
  error,          \* the ErrorEbm returned
  outcome,        \* the return statement taken
  interceptOut,   \* *interceptOut
  aScores,        \* the scores buffer
  aImpurities,    \* the impurities buffer
  cTensorBins, cSurfaceBins,
  impurityMax, impurityPrev, impurityCur, bRetry,
  iAllSurfaceBin,
  totals          \* impurityCur of every completed pass, in order

vars == <<arg, pc, error, outcome, interceptOut, aScores, aImpurities,
          cTensorBins, cSurfaceBins, impurityMax, impurityPrev, impurityCur,
          bRetry, iAllSurfaceBin, totals>>

locals == <<cTensorBins, cSurfaceBins, impurityMax, impurityPrev, impurityCur,
            bRetry, iAllSurfaceBin, totals>>

\* before the call: no arguments yet, *interceptOut not initialised
NoCall ==
  [countDimensions |-> 0, dimensionLengths |-> <<>>, nullLengths |-> TRUE,
   nullWeights |-> TRUE, nullScores |-> TRUE, nullImpurities |-> TRUE,
   tolerance |-> 0, hasInterceptOut |-> FALSE,
   weights |-> <<>>, scores |-> <<>>, impurities |-> <<>>]

Init ==
  /\ arg = NoCall
  /\ pc = "call"
  /\ error = "unset"
  /\ outcome = "none"
  /\ interceptOut \in GarbageVals
  /\ aScores = <<>>
  /\ aImpurities = <<>>
  /\ cTensorBins = 0
  /\ cSurfaceBins = 0
  /\ impurityMax = 0
  /\ impurityPrev = 0
  /\ impurityCur = 0
  /\ bRetry = FALSE
  /\ iAllSurfaceBin = 0
  /\ totals = <<>>

\* --------------------------------------------------------------- actions

\* *interceptOut = 0.0 at the top of Purify
InterceptLeftAlone(hasOut) == interceptOut

ZeroedIntercept(hasOut) == IF hasOut THEN 0 ELSE interceptOut

\* Purify is called with the arguments a and returns from one of its own
\* checks
PurifyReturnsEarly ==
  /\ pc = "call"
  /\ \E c \in CountVals, nl \in BOOLEAN, nw \in BOOLEAN, ns \in BOOLEAN, ni \in BOOLEAN :
     \E lens \in LengthVectors(c) :
     \E a \in ArgsOf(c, lens, nl, nw, ns, ni) :
       /\ CheckArguments(a) # "call"
       /\ arg' = a
       /\ aScores' = a.scores
       /\ aImpurities' = a.impurities
       /\ error' = CheckArguments(a)
       /\ interceptOut' = ZeroedIntercept(a.hasInterceptOut)
  /\ outcome' = "shim"
  /\ pc' = "done"
  /\ UNCHANGED locals

\* the first loop of PurifyInternal
WeightTotalAll(weights, n) == SumOver(weights, Cells(n))
ImpurityTotalAll(weights, scores, n) ==
  SumOver([i \in Cells(n) |-> DMul(scores[i], weights[i])], Cells(n))
ImpurityAbsAll(weights, scores, n) ==
  SumOver([i \in Cells(n) |-> Abs(DMul(scores[i], weights[i]))], Cells(n))

\* impurityMax = impurityMax * tolerance / weightTotalAll
ImpurityMaxOf(weights, scores, n, tolerance) ==
  DDiv(DMul(ImpurityAbsAll(weights, scores, n), tolerance), WeightTotalAll(weights, n))

\* intercept = impurityTotalAll / weightTotalAll
InterceptOf(weights, scores, n) ==
  DDiv(ImpurityTotalAll(weights, scores, n), WeightTotalAll(weights, n))

\* whether PurifyInternal returns before it writes anything
NothingToDo(weights, n) == WeightTotalAll(weights, n) = 0

\* Purify is called with the arguments a and calls PurifyInternal, which
\* finds no weight and returns
PurifyZeroWeight ==
  /\ pc = "call"
  /\ \E c \in CountVals, nl \in BOOLEAN, nw \in BOOLEAN, ns \in BOOLEAN, ni \in BOOLEAN :
     \E lens \in LengthVectors(c) :
     \E a \in ArgsOf(c, lens, nl, nw, ns, ni) :
       /\ CheckArguments(a) = "call"
       /\ LET n == CountTensorBins(a.dimensionLengths, a.countDimensions, 0, 1) IN
            /\ NothingToDo(a.weights, n)
            /\ cTensorBins' = n
       /\ arg' = a
       /\ aScores' = a.scores
       /\ aImpurities' = a.impurities
       /\ interceptOut' = ZeroedIntercept(a.hasInterceptOut)
  /\ error' = "Error_None"
  /\ outcome' = "zeroWeight"
  /\ pc' = "done"
  /\ UNCHANGED <<cSurfaceBins, impurityMax, impurityPrev, impurityCur, bRetry,
                 iAllSurfaceBin, totals>>

\* aImpurities after memset(aImpurities, 0, cSurfaceBins * sizeof(*aImpurities))
ImpuritiesNotCleared(buffer, cSurface) == buffer

ClearedImpurities(buffer, cSurface) ==
  [k \in DOMAIN buffer |-> IF k < cSurface THEN 0 ELSE buffer[k]]

\* the scores after the intercept is pulled out, when it is asked for
WithoutIntercept(weights, scores, n, hasOut) ==
  IF hasOut
  THEN [i \in Cells(n) |-> scores[i] + (-InterceptOf(weights, scores, n))]
  ELSE scores

\* Purify is called with the arguments a and calls PurifyInternal, which
\* runs up to the start of the first pass
PurifyEnters ==
  /\ pc = "call"
  /\ \E c \in CountVals, nl \in BOOLEAN, nw \in BOOLEAN, ns \in BOOLEAN, ni \in BOOLEAN :
     \E lens \in LengthVectors(c) :
     \E a \in ArgsOf(c, lens, nl, nw, ns, ni) :
       /\ CheckArguments(a) = "call"
       /\ LET n == CountTensorBins(a.dimensionLengths, a.countDimensions, 0, 1)
              cSurface == CountSurfaceBins(a.dimensionLengths, a.countDimensions, n, 0)
          IN  /\ ~NothingToDo(a.weights, n)
              /\ cTensorBins' = n
              /\ cSurfaceBins' = cSurface
              /\ impurityMax' = ImpurityMaxOf(a.weights, a.scores, n, a.tolerance)
              /\ interceptOut' = IF a.hasInterceptOut
                                 THEN InterceptOf(a.weights, a.scores, n)
                                 ELSE ZeroedIntercept(a.hasInterceptOut)
              /\ aScores' = WithoutIntercept(a.weights, a.scores, n, a.hasInterceptOut)
              /\ aImpurities' = ClearedImpurities(a.impurities, cSurface)
       /\ arg' = a
  /\ impurityPrev' = Infinity
  /\ impurityCur' = 0
  /\ bRetry' = FALSE
  /\ iAllSurfaceBin' = 0
  /\ pc' = "slice"
  /\ UNCHANGED <<error, outcome, totals>>

\* bRetry |= impurityMax < absImpurity
RetryOverwritten(retry, max, absImpurity) == max < absImpurity

RetryOnEqual(retry, max, absImpurity) == retry \/ max <= absImpurity

RetryAfter(retry, max, absImpurity) == retry \/ max < absImpurity

\* impurity = -impurity; aScores[iTensorCur] += impurity
ScoreLeftAlone(score, impurity) == score

ScoreAfter(score, impurity) == score + (-impurity)

\* one iteration of the for loop over iAllSurfaceBin; the locals of the
\* iteration are bound once each
SliceStep ==
  /\ pc = "slice"
  /\ iAllSurfaceBin < cSurfaceBins
  /\ \E dec \in {Decode(arg.dimensionLengths, arg.countDimensions, cTensorBins,
                        iAllSurfaceBin)} :
     \E cells \in {SliceCells(dec)} :
     \E impurity \in {SliceImpurity(arg.weights, aScores, cells)} :
     \E absImpurity \in {Abs(impurity)} :
         /\ bRetry' = RetryAfter(bRetry, impurityMax, absImpurity)
         /\ impurityCur' = impurityCur + absImpurity
         /\ aImpurities' = [aImpurities EXCEPT ![iAllSurfaceBin] = @ + impurity]
         /\ aScores' = [i \in DOMAIN aScores |->
                          IF i \in cells THEN ScoreAfter(aScores[i], impurity)
                          ELSE aScores[i]]
  /\ iAllSurfaceBin' = iAllSurfaceBin + 1
  /\ UNCHANGED <<arg, pc, error, outcome, interceptOut, cTensorBins, cSurfaceBins,
                 impurityMax, impurityPrev, totals>>

\* if(impurityPrev <= impurityCur) break;
NoGuard(prev, cur) == FALSE

StrictlyWorse(prev, cur) == prev < cur

NoImprovement(prev, cur) == prev <= cur

\* the passes the model follows one call for; a call that needs more stays
\* in the loop
MaxPasses == 8

\* the end of a pass: the monotonicity guard, then while(bRetry)
PassEnd ==
  /\ pc = "slice"
  /\ iAllSurfaceBin = cSurfaceBins
  /\ Len(totals) < MaxPasses
  /\ totals' = Append(totals, impurityCur)
  /\ IF NoImprovement(impurityPrev, impurityCur)
     THEN /\ pc' = "done"
          /\ error' = "Error_None"
          /\ outcome' = "guard"
          /\ UNCHANGED <<impurityPrev, impurityCur, bRetry, iAllSurfaceBin>>
     ELSE IF bRetry
     THEN /\ impurityPrev' = impurityCur
          /\ impurityCur' = 0
          /\ bRetry' = FALSE
          /\ iAllSurfaceBin' = 0
          /\ UNCHANGED <<pc, error, outcome>>
     ELSE /\ impurityPrev' = impurityCur
          /\ pc' = "done"
          /\ error' = "Error_None"
          /\ outcome' = "converged"
          /\ UNCHANGED <<impurityCur, bRetry, iAllSurfaceBin>>
  /\ UNCHANGED <<arg, interceptOut, aScores, aImpurities, cTensorBins, cSurfaceBins,
                 impurityMax>>

Next == PurifyReturnsEarly \/ PurifyZeroWeight \/ PurifyEnters \/ SliceStep \/ PassEnd

Spec == Init /\ [][Next]_vars

\* the pass loop is straight-line code: once PurifyInternal is in it, a step
\* that can be taken is taken.  Whether Purify is called is up to the caller.
FairSpec == Spec /\ WF_vars(SliceStep \/ PassEnd)

\* ------------------------------------------------- notions of the claims

\* the call reached the pass loop of PurifyInternal
InLoop == pc = "slice" \/ outcome \in {"guard", "converged"}

\* the start of the first pass; the lengths, cTensorBins and cSurfaceBins
\* that the decoding reads stay as they are here until the call returns
AtLoopEntry == pc = "slice" /\ iAllSurfaceBin = 0 /\ totals = <<>>

\* PurifyInternal returned from its pass loop
Returned == pc = "done" /\ outcome \in {"guard", "converged"}

Dimensions == Cells(arg.countDimensions)
Extent(d) == arg.dimensionLengths[d]
SurfaceBins == Cells(cSurfaceBins)
Decoded(id) == Decode(arg.dimensionLengths, arg.countDimensions, cTensorBins, id)
Slice(id) == SliceCells(Decoded(id))

\* the product of the extents of the dimensions before d, leaving out skip
RECURSIVE ExtentsBefore(_, _)
ExtentsBefore(d, skip) ==
  IF d = 0 THEN 1
  ELSE (IF d - 1 = skip THEN 1 ELSE Extent(d - 1)) * ExtentsBefore(d - 1, skip)

\* no dimension has this index
NoSkip == arg.countDimensions
Stride(d) == ExtentsBefore(d, NoSkip)

\* the number of surface bins of the dimensions before d
RECURSIVE BinsBefore(_)
BinsBefore(d) ==
  IF d = 0 THEN 0 ELSE cTensorBins \div Extent(d - 1) + BinsBefore(d - 1)

\* the linear id of the surface bin of dimension d whose position in every
\* other dimension i is digits[i]
Encode(d, digits) ==
  BinsBefore(d)
  + SumOver([i \in Dimensions \ {d} |-> digits[i] * ExtentsBefore(i, d)],
            Dimensions \ {d})

\* every product score * weight of the call is exact: the weights are whole
ExactProducts == \A i \in DOMAIN arg.weights : arg.weights[i] % Scale = 0

\* the weighted mean of the scores s along the slice of surface bin id
SliceMean(s, id) == SliceImpurity(arg.weights, s, Slice(id))

\* the global weighted mean of the scores the caller passed
GlobalMean == InterceptOf(arg.weights, arg.scores, cTensorBins)

\* the intercept that was pulled out of the scores
Intercept == IF arg.hasInterceptOut THEN interceptOut ELSE 0

\* ---------------------------------------------------------------- claims

\* C1 (conservation): from the start of the first pass on, after every slice
\* update and at return, each cell's original score is its current score
\* plus the intercept (when one was pulled out) plus the impurities of all
\* surface bins whose slice contains the cell, whatever aImpurities held
\* before the call.
C1_Conservation ==
  InLoop =>
    \A i \in Cells(cTensorBins) :
      arg.scores[i] =
        aScores[i] + Intercept
        + SumOver(aImpurities, {k \in SurfaceBins : i \in Slice(k)})

C1_Witness ==
  /\ Returned
  /\ arg.hasInterceptOut /\ interceptOut # 0
  /\ \E k \in SurfaceBins : aImpurities[k] # 0 /\ arg.impurities[k] # 0
  /\ \E i \in Cells(cTensorBins) : aScores[i] # 0
  /\ Len(totals) >= 2

AllWeightsZero == \A i \in DOMAIN arg.weights : arg.weights[i] = 0

\* C3 (zero-weight no-op): a call that reaches PurifyInternal with every
\* weight zero returns Error_None with scores and impurities as the caller
\* passed them (impurities not zero-filled) and the intercept, when asked
\* for, at the 0 that Purify stored.
C3_ZeroWeightNoOp ==
  (pc = "done" /\ CheckArguments(arg) = "call" /\ AllWeightsZero) =>
    /\ error = "Error_None"
    /\ totals = <<>>
    /\ aScores = arg.scores
    /\ aImpurities = arg.impurities
    /\ arg.hasInterceptOut => interceptOut = 0

C3_Witness ==
  /\ pc = "done" /\ CheckArguments(arg) = "call" /\ AllWeightsZero
  /\ arg.hasInterceptOut
  /\ cTensorBins >= 4
  /\ \E i \in DOMAIN aScores : aScores[i] # 0
  /\ \E k \in DOMAIN aImpurities : aImpurities[k] # 0

\* C7 (surface-bin decoding): for every linear id below cSurfaceBins the
\* search stops at a sweep dimension below cDimensions whose length divides
\* cTensorBins, the peeling leaves the residual 0, and encoding the decoded
\* dimension and digits gives the id back; so distinct ids decode apart.
C7_Decoding ==
  AtLoopEntry =>
    /\ \A id \in SurfaceBins :
         LET dec == Decoded(id) IN
           /\ dec.iSweepDimension < arg.countDimensions
           /\ cTensorBins % dec.cSweepBins = 0
           /\ dec.residual = 0
           /\ \A d \in Dimensions \ {dec.iSweepDimension} : dec.digits[d] < Extent(d)
           /\ Encode(dec.iSweepDimension, dec.digits) = id
    /\ \A id1, id2 \in SurfaceBins :
         (/\ Decoded(id1).iSweepDimension = Decoded(id2).iSweepDimension
          /\ Decoded(id1).digits = Decoded(id2).digits) => id1 = id2

C7_Witness ==
  /\ AtLoopEntry
  /\ arg.countDimensions = 3
  /\ cTensorBins = 8
  /\ Decoded(cSurfaceBins - 1).iSweepDimension = 2
  /\ Decoded(cSurfaceBins - 1).digits = [d \in Dimensions |-> IF d = 2 THEN 0 ELSE 1]

\* C10 (slice geometry): the surface bins of dimension d are the
\* cTensorBins / extent[d] ids from BinsBefore(d) on; the slice of each is
\* extent[d] cells spaced by the stride of d, all inside the tensor; the
\* slices of one dimension are pairwise disjoint and cover the tensor, so a
\* cell lies in exactly cDimensions slices; and the surface bins are exactly
\* the indexes of the impurities buffer.
BinsOfDimension(d) ==
  {id \in SurfaceBins : BinsBefore(d) <= id /\ id < BinsBefore(d) + cTensorBins \div Extent(d)}

C10_SliceGeometry ==
  AtLoopEntry =>
    /\ SurfaceBins = DOMAIN aImpurities
    /\ SurfaceBins = UNION {BinsOfDimension(d) : d \in Dimensions}
    /\ \A d \in Dimensions :
         /\ Cardinality(BinsOfDimension(d)) = cTensorBins \div Extent(d)
         /\ \A id \in BinsOfDimension(d) :
              /\ Decoded(id).iSweepDimension = d
              /\ Slice(id) = {Decoded(id).iTensor + j * Stride(d) : j \in Cells(Extent(d))}
              /\ Cardinality(Slice(id)) = Extent(d)
              /\ Slice(id) \subseteq Cells(cTensorBins)
         /\ \A id1, id2 \in BinsOfDimension(d) :
              id1 # id2 => Slice(id1) \cap Slice(id2) = {}
         /\ UNION {Slice(id) : id \in BinsOfDimension(d)} = Cells(cTensorBins)
    /\ \A i \in Cells(cTensorBins) :
         Cardinality({id \in SurfaceBins : i \in Slice(id)}) = arg.countDimensions

C10_Witness ==
  /\ AtLoopEntry
  /\ arg.countDimensions = 3
  /\ cTensorBins = 8
  /\ cSurfaceBins = 12
  /\ Slice(5) = {1, 3}
  /\ Slice(11) = {3, 7}

\* C8 (error taxonomy of Purify).  The reasons a call is rejected for, read
\* off the arguments alone:
NegativeCount == arg.countDimensions < 0
ExcessiveCount == arg.countDimensions > k_cDimensionsMax
CountInRange == 1 <= arg.countDimensions /\ arg.countDimensions <= k_cDimensionsMax
NullLengths == CountInRange /\ arg.nullLengths
LengthsRead == CountInRange /\ ~arg.nullLengths
NegativeLength == LengthsRead /\ \E d \in Dimensions : Extent(d) < 0
ZeroLength == LengthsRead /\ \E d \in Dimensions : Extent(d) = 0
PositiveLengths == LengthsRead /\ \A d \in Dimensions : Extent(d) >= 1
SizeOverflow ==
  /\ PositiveLengths
  /\ \/ \E d \in Dimensions : Extent(d) > SizeMax
     \/ ExtentsBefore(arg.countDimensions, NoSkip) > SizeMax
NullBuffer ==
  /\ PositiveLengths /\ ~SizeOverflow
  /\ arg.nullWeights \/ arg.nullScores \/ arg.nullImpurities

\* as claimed: a call rejected for a negative or an excessive dimension
\* count, a null required buffer or a negative dimension length returns
\* Error_IllegalParamVal, and Error_OutOfMemory is returned for size
\* overflow only.
C8_AsClaimed ==
  pc = "done" =>
    /\ (NegativeCount \/ ExcessiveCount \/ NullLengths \/ NegativeLength \/ NullBuffer)
         => error = "Error_IllegalParamVal"
    /\ error = "Error_OutOfMemory" => SizeOverflow

\* C8 as amended: a negative dimension count, a null required buffer and a
\* negative dimension length (at any position, also beside a zero length)
\* return Error_IllegalParamVal; an excessive dimension count returns
\* Error_OutOfMemory, as size overflow does, and nothing else does.
C8_ErrorTaxonomy ==
  pc = "done" =>
    /\ (NegativeCount \/ NullLengths \/ NegativeLength \/ NullBuffer)
         => error = "Error_IllegalParamVal"
    /\ ExcessiveCount => error = "Error_OutOfMemory"
    /\ error = "Error_OutOfMemory" <=> (ExcessiveCount \/ SizeOverflow)
    /\ error = "Error_IllegalParamVal"
         <=> (NegativeCount \/ NullLengths \/ NegativeLength \/ NullBuffer)

C8_Witness ==
  /\ pc = "done"
  /\ ExcessiveCount
  /\ arg.nullLengths /\ arg.nullWeights
  /\ error = "Error_OutOfMemory"

\* C2 (termination): every call returns; the pass loop runs finitely often.
C2_Termination == (pc = "slice") ~> (pc = "done")

\* the guard ended a loop that would have gone on: some slice of the last
\* pass was above impurityMax, at tolerance 0
C2_Witness ==
  /\ pc = "done" /\ outcome = "guard"
  /\ bRetry
  /\ arg.tolerance = 0

\* the total of the previous pass, +infinity before the first
PrevTotal == IF totals = <<>> THEN Infinity ELSE totals[Len(totals)]

AtPassEnd == pc = "slice" /\ iAllSurfaceBin = cSurfaceBins

\* C9 (stopping rule): a pass whose total is not smaller than the previous
\* one ends the call whatever bRetry says, any other pass is followed by a
\* further one exactly if bRetry; so the first pass runs in full and the
\* totals of the passes fall strictly, but for the last one.
C9_StoppingRule ==
  /\ [](InLoop =>
          /\ impurityCur < Infinity
          /\ \A i \in 1..(Len(totals) - 2) : totals[i + 1] < totals[i]
          /\ pc = "slice" =>
               /\ impurityPrev = PrevTotal
               /\ \A i \in 1..(Len(totals) - 1) : totals[i + 1] < totals[i]
          /\ Returned => totals # <<>>)
  /\ [][AtPassEnd =>
          /\ totals' = Append(totals, impurityCur)
          /\ IF PrevTotal <= impurityCur
             THEN pc' = "done"
             ELSE (pc' = "slice" <=> bRetry) /\ (pc' = "done" <=> ~bRetry)]_vars

\* the last of three or more passes ended the call by raising the total,
\* with a slice still above impurityMax
C9_Witness ==
  /\ pc = "done" /\ outcome = "guard"
  /\ bRetry
  /\ Len(totals) >= 3
  /\ totals[Len(totals)] > totals[Len(totals) - 1]

\* every slice of the scores s has a weighted mean within bound
MeansWithin(s, bound) == \A k \in SurfaceBins : Abs(SliceMean(s, k)) <= bound

\* C4 as claimed: whenever the loop ends without the guard, every slice of
\* the final scores has a weighted mean within impurityMax, for any number
\* of dimensions.
C4_AsClaimed ==
  (Returned /\ outcome = "converged" /\ ExactProducts) =>
    MeansWithin(aScores, impurityMax)

\* C4 (weighted-mean removal): when the loop ends without the guard, every
\* slice of the final scores of a tensor of at most 2 dimensions has a
\* weighted mean within impurityMax, and every slice of a tensor of D
\* dimensions one within (D - 1) * impurityMax.
C4_MeanRemoval ==
  (Returned /\ outcome = "converged" /\ ExactProducts) =>
    /\ arg.countDimensions <= 2 => MeansWithin(aScores, impurityMax)
    /\ MeansWithin(aScores, (arg.countDimensions - 1) * impurityMax)

C4_Witness ==
  /\ Returned /\ outcome = "converged" /\ ExactProducts
  /\ arg.countDimensions = 2
  /\ impurityMax > 0
  /\ \E k \in SurfaceBins : SliceMean(aScores, k) # 0

\* C5 as claimed: an input whose every slice mean is within impurityMax is
\* purified in at most one pass that leaves every score unchanged.
C5_AsClaimed ==
  (Returned /\ MeansWithin(arg.scores, impurityMax)) =>
    /\ Len(totals) <= 1
    /\ aScores = arg.scores

\* C5 (idempotence on pure input): an input whose every slice mean and
\* whose global mean are exactly 0 is purified in exactly one pass that
\* leaves every score unchanged, every impurity 0 and the intercept 0.
C5_Idempotence ==
  (Returned /\ MeansWithin(arg.scores, 0) /\ GlobalMean = 0) =>
    /\ Len(totals) = 1
    /\ outcome = "converged"
    /\ aScores = arg.scores
    /\ \A k \in SurfaceBins : aImpurities[k] = 0
    /\ arg.hasInterceptOut => interceptOut = 0

C5_Witness ==
  /\ Returned /\ MeansWithin(arg.scores, 0) /\ GlobalMean = 0
  /\ arg.tolerance = 0
  /\ \E i \in Cells(cTensorBins) : arg.scores[i] # 0 /\ arg.weights[i] # 0

\* at most one dimension has an extent other than 1
EffectivelyOneD ==
  /\ arg.countDimensions >= 1
  /\ Cardinality({d \in Dimensions : Extent(d) # 1}) <= 1

FinalIsCentred == \A i \in Cells(cTensorBins) : aScores[i] = arg.scores[i] - GlobalMean

\* C6 as claimed: a tensor with extent 1 in all but one dimension is
\* purified in one pass, to the scores minus their global weighted mean.
C6_AsClaimed ==
  (Returned /\ EffectivelyOneD /\ ExactProducts) =>
    /\ Len(totals) = 1
    /\ FinalIsCentred

\* C6 (1-D reduction): a tensor of one dimension is purified to the scores
\* minus their global weighted mean, the whole of it removed in the first
\* pass or as the intercept; a second pass, if any, removes nothing.
C6_OneDReduction ==
  (InLoop /\ arg.countDimensions = 1 /\ ExactProducts) =>
    /\ Len(totals) >= 1 => FinalIsCentred
    /\ Len(totals) <= 2
    /\ Len(totals) = 2 => totals[2] = 0
    /\ Returned => outcome = "converged"

C6_Witness ==
  /\ Returned /\ arg.countDimensions = 1 /\ ExactProducts
  /\ Len(totals) = 2
  /\ GlobalMean # 0
  /\ \E i \in Cells(cTensorBins) : aScores[i] # 0

====
